---- MODULE Spec2Model ----
(***************************************************************************)
(* Model of lib/key-utils.js: the escaper, the unescaped-split engine, the *)
(* key builders and parsers and the tokenizer.                             *)
(*                                                                         *)
(* A JavaScript string is a sequence of characters (one-character TLA+     *)
(* strings, the two separators being the atoms tokenSeparator and          *)
(* keySeparator); an array of strings is a sequence of such sequences.     *)
(* A value that may be undefined, null or false is a tagged record.        *)
(***************************************************************************)
EXTENDS Integers, Sequences, FiniteSets, TLC

VARIABLES pc, op, args, ret, parts

vars == <<pc, op, args, ret, parts>>

(***************************************************************************)
(* Bounds of the model.                                                    *)
(***************************************************************************)
\* longest text handed to a one-string operation
MaxLen == 3
\* longest key handed to parseKey / parseSearchKey
MaxKeyLen == 1
\* most components handed to buildKey
MaxComponents == 3
\* longest single key component handed to a builder
MaxComponentLen == 1

(***************************************************************************)
(* Characters.                                                             *)
(***************************************************************************)
tokenSeparator == "<U+FFED>"
keySeparator == "<U+FFEE>"
BS == "\\"

\* the characters of the class in defaultWordSeparator
WordSeparatorChars == {"|", "'", " ", ".", ",", "-", "(", "\n", ")"}

\* input alphabet of texts: escape character, both separators, a letter, a blank
Chars == {BS, tokenSeparator, keySeparator, "a", " "}

\* input alphabet of key components
KeyChars == {BS, keySeparator, "a"}

StringsOver(alphabet, n) == UNION {[1..k -> alphabet] : k \in 0..n}

Texts == StringsOver(Chars, MaxLen)
Keys == StringsOver(KeyChars, MaxKeyLen)
Components == StringsOver(KeyChars, MaxComponentLen)

(***************************************************************************)
(* JavaScript values other than strings and arrays.                        *)
(***************************************************************************)
Undefined == [t |-> "undefined"]
Null == [t |-> "null"]
False == [t |-> "false"]
Str(s) == [t |-> "string", v |-> s]

(***************************************************************************)
(* String primitives of the host language, as the code uses them.          *)
(***************************************************************************)
\* does the literal pat occur in str at 1-based position i
OccursAt(str, i, pat) ==
    /\ i + Len(pat) - 1 <= Len(str)
    /\ \A j \in 1..Len(pat) : str[i + j - 1] = pat[j]

\* String.prototype.indexOf: 0-based index of the first occurrence, -1 if none
IndexOf(str, pat) ==
    LET hits == {i \in 1..(Len(str) + 1) : OccursAt(str, i, pat)}
    IN  IF hits = {} THEN -1
        ELSE (CHOOSE i \in hits : \A j \in hits : i <= j) - 1

\* String.prototype.replace with a global regex of a literal, non-empty pattern:
\* left to right, non-overlapping, the replacement is not rescanned
RECURSIVE ReplaceFrom(_, _, _, _)
ReplaceFrom(str, i, pat, repl) ==
    IF i > Len(str) THEN <<>>
    ELSE IF OccursAt(str, i, pat)
         THEN repl \o ReplaceFrom(str, i + Len(pat), pat, repl)
         ELSE <<str[i]>> \o ReplaceFrom(str, i + 1, pat, repl)

ReplaceAll(str, pat, repl) == ReplaceFrom(str, 1, pat, repl)

\* str.split('').reverse().join('')
RECURSIVE ReverseSeq(_)
ReverseSeq(s) ==
    IF Len(s) = 0 THEN <<>> ELSE ReverseSeq(Tail(s)) \o <<Head(s)>>

\* Array.prototype.join; every element here is a string
RECURSIVE Join(_, _)
Join(arr, sep) ==
    IF Len(arr) = 0 THEN <<>>
    ELSE IF Len(arr) = 1 THEN arr[1]
    ELSE arr[1] \o sep \o Join(Tail(arr), sep)

\* substring of str between 0-based indices from (inclusive) and to (exclusive)
Substring(str, from, to) ==
    LET a == IF from < 0 THEN 0 ELSE IF from > Len(str) THEN Len(str) ELSE from
        b == IF to < 0 THEN 0 ELSE IF to > Len(str) THEN Len(str) ELSE to
        lo == IF a <= b THEN a ELSE b
        hi == IF a <= b THEN b ELSE a
    IN  SubSeq(str, lo + 1, hi)

(***************************************************************************)
(* Regular expressions the module compiles, as data.                       *)
(*   literal : the characters of s in a row (the empty s matches the empty *)
(*             string everywhere)                                          *)
(*   class+  : one or more characters of chars, greedy                     *)
(*   revsep  : sep, then pairs of backslashes, greedy with backtracking,   *)
(*             then a position not followed by a backslash                 *)
(***************************************************************************)
LiteralRegex(s) == [kind |-> "literal", s |-> s]
ClassPlusRegex(chars) == [kind |-> "class+", chars |-> chars]
ReverseSeparatorRegex(sep) == [kind |-> "revsep", sep |-> sep]

\* var defaultWordSeparator = /[\|' \.,\-|(\n)]+/
defaultWordSeparator == ClassPlusRegex(WordSeparatorChars)

\* number of characters of str from 0-based index q on that are in chars
RunLength(str, q, chars) ==
    LET stops == {k \in 0..(Len(str) - q) :
                     k = Len(str) - q \/ str[q + k + 1] \notin chars}
    IN  CHOOSE k \in stops : \A j \in stops : k <= j

\* the regex matched at 0-based index q only: the end index of the match, -1 if
\* there is none
MatchEnd(regex, str, q) ==
    CASE regex.kind = "literal" ->
            IF OccursAt(str, q + 1, regex.s) THEN q + Len(regex.s) ELSE -1
      [] regex.kind = "class+" ->
            LET n == RunLength(str, q, regex.chars)
            IN  IF n >= 1 THEN q + n ELSE -1
      [] regex.kind = "revsep" ->
            IF q < Len(str) /\ str[q + 1] = regex.sep
            THEN LET run == RunLength(str, q + 1, {BS})
                     \* pair counts after which the lookahead (?!\\) succeeds
                     ok == {k \in 0..(run \div 2) :
                               \/ q + 1 + 2 * k >= Len(str)
                               \/ str[q + 1 + 2 * k + 1] # BS}
                 IN  IF ok = {} THEN -1
                     ELSE q + 1 + 2 * (CHOOSE k \in ok : \A j \in ok : j <= k)
            ELSE -1

\* String.prototype.split(regex), the loop of the language definition: p is the
\* start of the pending fragment, q the position tried next
RECURSIVE SplitLoop(_, _, _, _)
SplitLoop(str, regex, p, q) ==
    IF q >= Len(str) THEN <<Substring(str, p, Len(str))>>
    ELSE LET e == MatchEnd(regex, str, q)
         IN  IF e = -1 \/ e = p
             THEN SplitLoop(str, regex, p, q + 1)
             ELSE <<Substring(str, p, q)>> \o SplitLoop(str, regex, e, e)

RegExpSplit(str, regex) ==
    IF Len(str) = 0
    THEN IF MatchEnd(regex, str, 0) # -1 THEN <<>> ELSE <<str>>
    ELSE SplitLoop(str, regex, 0, 0)

\* String.prototype.split(separator) with a one-character string separator
StringSplit(str, separator) == RegExpSplit(str, LiteralRegex(<<separator>>))

(***************************************************************************)
(* Escaper.                                                                *)
(***************************************************************************)
\* escape with the separator passes run before the backslash pass
escapeSeparatorsFirst(str) ==
    LET a == ReplaceAll(str, <<tokenSeparator>>, <<BS, tokenSeparator>>)
        b == ReplaceAll(a, <<keySeparator>>, <<BS, keySeparator>>)
    IN  ReplaceAll(b, <<BS>>, <<BS, BS>>)

escape(str) ==
    LET a == ReplaceAll(str, <<BS>>, <<BS, BS>>)
        b == ReplaceAll(a, <<tokenSeparator>>, <<BS, tokenSeparator>>)
    IN  ReplaceAll(b, <<keySeparator>>, <<BS, keySeparator>>)

\* unescape with the token-separator pass run twice and no key-separator pass
unescapeNoKeySeparator(str) ==
    LET a == ReplaceAll(str, <<BS, tokenSeparator>>, <<tokenSeparator>>)
        b == ReplaceAll(a, <<BS, tokenSeparator>>, <<tokenSeparator>>)
    IN  ReplaceAll(b, <<BS, BS>>, <<BS>>)

unescape(str) ==
    LET a == ReplaceAll(str, <<BS, tokenSeparator>>, <<tokenSeparator>>)
        b == ReplaceAll(a, <<BS, keySeparator>>, <<keySeparator>>)
    IN  ReplaceAll(b, <<BS, BS>>, <<BS>>)

(***************************************************************************)
(* Unescaped-split engine.                                                 *)
(***************************************************************************)
reverseSplit(text, reverseSeparator) ==
    LET pieces == RegExpSplit(ReverseSeq(text), reverseSeparator)
    IN  ReverseSeq([i \in 1..Len(pieces) |-> ReverseSeq(pieces[i])])

splitOnUnescapedSeparator(text, separator) ==
    IF IndexOf(text, <<BS, separator>>) > 0
    THEN reverseSplit(text, ReverseSeparatorRegex(separator))
    ELSE StringSplit(text, separator)

(***************************************************************************)
(* Key builders.                                                           *)
(***************************************************************************)
\* components: the array, whether passed as one array or gathered from the
\* arguments
buildKey(components) ==
    Join([i \in 1..Len(components) |-> escape(components[i])], <<keySeparator>>)

\* x || "" for x a string or undefined
OrEmpty(x) == IF x = Undefined \/ x = Str(<<>>) THEN <<>> ELSE x.v

\* what Array.prototype.join writes for an element: nothing for undefined
JoinText(x) == IF x = Undefined THEN <<>> ELSE x.v

\* the i-th of the passed arguments, undefined beyond them
Arg(arguments, i) == IF i <= Len(arguments) THEN arguments[i] ELSE Undefined

\* arguments: the values passed for prefix, field, value, filter, filterKey
buildSearchKey(arguments) ==
    Join(<<JoinText(Arg(arguments, 1)), JoinText(Arg(arguments, 2)),
           JoinText(Arg(arguments, 3)), OrEmpty(Arg(arguments, 4)),
           OrEmpty(Arg(arguments, 5))>>, <<keySeparator>>)

buildTermFrequencyKey(arguments) ==
    buildSearchKey(<<Str(<<"T", "F">>)>> \o arguments)

buildReverseIndexKey(arguments) ==
    buildSearchKey(<<Str(<<"R", "I">>)>> \o arguments)

buildFieldInfoKey(arguments) ==
    buildSearchKey(<<Str(<<"F", "I">>)>> \o arguments)

(***************************************************************************)
(* Key parsers.  parseKey and parseSearchKey assign the undeclared name    *)
(* parts, which is a variable of the global object; each operator gives    *)
(* the returned value and the value parts holds afterwards.                *)
(***************************************************************************)
breakKey(key) ==
    LET pieces == splitOnUnescapedSeparator(key, keySeparator)
    IN  [i \in 1..Len(pieces) |-> unescape(pieces[i])]

\* arr[i] for a 0-based i, undefined outside the array
Element(arr, i) == IF i + 1 <= Len(arr) THEN Str(arr[i + 1]) ELSE Undefined

parseKey(key) ==
    LET broken == breakKey(key)
        shifted == IF Len(broken) = 0 THEN broken ELSE Tail(broken)
    IN  [ret |-> [prefix |-> Element(broken, 0), parts |-> shifted],
         parts |-> <<shifted>>]

parseSearchKey(key) ==
    LET broken == breakKey(key)
    IN  [ret |-> [prefix |-> Element(broken, 0),
                  field |-> Element(broken, 1),
                  value |-> Element(broken, 2),
                  filter |-> Element(broken, 3),
                  filterKey |-> Element(broken, 4),
                  trailing |-> SubSeq(broken, 6, Len(broken))],
         parts |-> <<broken>>]

keyHasPrefix(key, prefix) ==
    Substring(key, 0, Len(prefix) + 1) = prefix \o <<keySeparator>>

(***************************************************************************)
(* Tokenizer.  separator is Undefined (not passed), Null, False or Str(s); *)
(* a string is compiled with new RegExp(s), and the strings drawn here     *)
(* hold no character the regex syntax reads specially.                     *)
(***************************************************************************)
tokenize(text, isEncoded, separator) ==
    IF isEncoded
    THEN splitOnUnescapedSeparator(text, tokenSeparator)
    ELSE IF separator = Undefined
         THEN RegExpSplit(text, defaultWordSeparator)
         ELSE IF separator = Null \/ separator = False
              THEN RegExpSplit(text, LiteralRegex(<<>>))
              ELSE RegExpSplit(text, LiteralRegex(separator.v))

encode(text, separator) ==
    Join(tokenize(escape(text), FALSE, separator), <<tokenSeparator>>)

(***************************************************************************)
(* Inputs of the calls.                                                    *)
(***************************************************************************)
\* separator strings a caller passes to tokenize / encode
SeparatorStrings == {<<>>, <<"a">>, <<" ">>}

Separators == {Undefined, Null, False} \cup {Str(s) : s \in SeparatorStrings}

ComponentLists == UNION {[1..k -> Components] : k \in 1..MaxComponents}

ArgumentLists(lo, hi) ==
    UNION {[1..k -> {Str(c) : c \in Components}] : k \in lo..hi}

(***************************************************************************)
(* The module and its caller.  After module load the caller is ready; a    *)
(* call of an exported function runs to completion (pc = "returned", with  *)
(* op, args and ret the function, its arguments and its return value), and *)
(* the caller then goes on to its next call.  parts is the property parts  *)
(* of the global object, <<>> while it does not exist, <<array>> after.    *)
(***************************************************************************)
NoParts == <<>>

Init ==
    /\ pc = "ready"
    /\ op = "load"
    /\ args = <<>>
    /\ ret = Undefined
    /\ parts = NoParts

Escape ==
    /\ pc = "ready"
    /\ \E str \in Texts :
        /\ args' = <<str>>
        /\ ret' = escape(str)
    /\ op' = "escape"
    /\ pc' = "returned"
    /\ UNCHANGED parts

Unescape ==
    /\ pc = "ready"
    /\ \E str \in Texts :
        /\ args' = <<str>>
        /\ ret' = unescape(str)
    /\ op' = "unescape"
    /\ pc' = "returned"
    /\ UNCHANGED parts

\* buildKey(array) with one component or more
BuildKeyArray ==
    /\ pc = "ready"
    /\ \E components \in ComponentLists :
        /\ args' = <<components>>
        /\ ret' = buildKey(components)
    /\ op' = "buildKey"
    /\ pc' = "returned"
    /\ UNCHANGED parts

\* buildKey(c1, c2, ...): the first argument is no array, so the components
\* are gathered from the arguments
BuildKeyVariadic ==
    /\ pc = "ready"
    /\ \E components \in ComponentLists :
        /\ args' = components
        /\ ret' = buildKey(components)
    /\ op' = "buildKeyVariadic"
    /\ pc' = "returned"
    /\ UNCHANGED parts

\* buildKey([])
BuildKeyEmptyArray ==
    /\ pc = "ready"
    /\ args' = << <<>> >>
    /\ ret' = buildKey(<<>>)
    /\ op' = "buildKey"
    /\ pc' = "returned"
    /\ UNCHANGED parts

BuildSearchKey ==
    /\ pc = "ready"
    /\ \E arguments \in ArgumentLists(3, 5) :
        /\ args' = arguments
        /\ ret' = buildSearchKey(arguments)
    /\ op' = "buildSearchKey"
    /\ pc' = "returned"
    /\ UNCHANGED parts

BuildTermFrequencyKey ==
    /\ pc = "ready"
    /\ \E arguments \in ArgumentLists(0, 4) :
        /\ args' = arguments
        /\ ret' = buildTermFrequencyKey(arguments)
    /\ op' = "buildTermFrequencyKey"
    /\ pc' = "returned"
    /\ UNCHANGED parts

BuildReverseIndexKey ==
    /\ pc = "ready"
    /\ \E arguments \in ArgumentLists(0, 4) :
        /\ args' = arguments
        /\ ret' = buildReverseIndexKey(arguments)
    /\ op' = "buildReverseIndexKey"
    /\ pc' = "returned"
    /\ UNCHANGED parts

BuildFieldInfoKey ==
    /\ pc = "ready"
    /\ \E arguments \in ArgumentLists(0, 4) :
        /\ args' = arguments
        /\ ret' = buildFieldInfoKey(arguments)
    /\ op' = "buildFieldInfoKey"
    /\ pc' = "returned"
    /\ UNCHANGED parts

BreakKey ==
    /\ pc = "ready"
    /\ \E key \in Texts :
        /\ args' = <<key>>
        /\ ret' = breakKey(key)
    /\ op' = "breakKey"
    /\ pc' = "returned"
    /\ UNCHANGED parts

ParseKey ==
    /\ pc = "ready"
    /\ \E key \in Keys :
        /\ args' = <<key>>
        /\ ret' = parseKey(key).ret
        /\ parts' = parseKey(key).parts
    /\ op' = "parseKey"
    /\ pc' = "returned"

ParseSearchKey ==
    /\ pc = "ready"
    /\ \E key \in Keys :
        /\ args' = <<key>>
        /\ ret' = parseSearchKey(key).ret
        /\ parts' = parseSearchKey(key).parts
    /\ op' = "parseSearchKey"
    /\ pc' = "returned"

KeyHasPrefix ==
    /\ pc = "ready"
    /\ \E key \in Texts, prefix \in Components :
        /\ args' = <<key, prefix>>
        /\ ret' = keyHasPrefix(key, prefix)
    /\ op' = "keyHasPrefix"
    /\ pc' = "returned"
    /\ UNCHANGED parts

\* tokenize(text, true) and tokenize(text, true, separator)
TokenizeEncoded ==
    /\ pc = "ready"
    /\ \E text \in Texts, separator \in {Undefined, Str(<<" ">>)} :
        /\ args' = <<text, TRUE, separator>>
        /\ ret' = tokenize(text, TRUE, separator)
    /\ op' = "tokenize"
    /\ pc' = "returned"
    /\ UNCHANGED parts

\* tokenize(text, false) and tokenize(text, false, separator)
Tokenize ==
    /\ pc = "ready"
    /\ \E text \in Texts, separator \in Separators :
        /\ args' = <<text, FALSE, separator>>
        /\ ret' = tokenize(text, FALSE, separator)
    /\ op' = "tokenize"
    /\ pc' = "returned"
    /\ UNCHANGED parts

Encode ==
    /\ pc = "ready"
    /\ \E text \in Texts, separator \in Separators :
        /\ args' = <<text, separator>>
        /\ ret' = encode(text, separator)
    /\ op' = "encode"
    /\ pc' = "returned"
    /\ UNCHANGED parts

\* the caller takes the returned value and is ready for its next call
Return ==
    /\ pc = "returned"
    /\ pc' = "ready"
    /\ op' = "none"
    /\ args' = <<>>
    /\ ret' = Undefined
    /\ UNCHANGED parts

Next ==
    \/ Escape
    \/ Unescape
    \/ BuildKeyArray
    \/ BuildKeyVariadic
    \/ BuildKeyEmptyArray
    \/ BuildSearchKey
    \/ BuildTermFrequencyKey
    \/ BuildReverseIndexKey
    \/ BuildFieldInfoKey
    \/ BreakKey
    \/ ParseKey
    \/ ParseSearchKey
    \/ KeyHasPrefix
    \/ TokenizeEncoded
    \/ Tokenize
    \/ Encode
    \/ Return

Spec == Init /\ [][Next]_vars

\* a caller that uses the escaper only
NextEscaper == Escape \/ Unescape \/ Return

SpecEscaper == Init /\ [][NextEscaper]_vars

Returned(o) == pc = "returned" /\ op = o

(***************************************************************************)
(* Vocabulary of the properties.                                           *)
(***************************************************************************)
SeparatorChars == {tokenSeparator, keySeparator}

\* length of the maximal run of backslashes that ends right before position i
BackslashRunBefore(str, i) ==
    LET lens == {n \in 0..(i - 1) :
                    /\ \A j \in (i - n)..(i - 1) : str[j] = BS
                    /\ (n = i - 1 \/ str[i - n - 1] # BS)}
    IN  CHOOSE n \in lens : TRUE

\* the positions of str that hold an unescaped sep
UnescapedAt(str, sep) ==
    {i \in 1..Len(str) : str[i] = sep /\ BackslashRunBefore(str, i) % 2 = 0}

\* the pieces of str from position from on, cut at the positions in points
RECURSIVE FragmentsFrom(_, _, _)
FragmentsFrom(str, points, from) ==
    LET ahead == {i \in points : i >= from}
    IN  IF ahead = {} THEN <<SubSeq(str, from, Len(str))>>
        ELSE LET i == CHOOSE x \in ahead : \A y \in ahead : x <= y
             IN  <<SubSeq(str, from, i - 1)>> \o FragmentsFrom(str, points, i + 1)

\* str cut at every unescaped sep, nothing else removed
UnescapedFragments(str, sep) == FragmentsFrom(str, UnescapedAt(str, sep), 1)

\* the given value, or the empty string when absent or empty
GivenOrEmpty(arguments, i) ==
    IF i <= Len(arguments) THEN arguments[i].v ELSE <<>>

(***************************************************************************)
(* C1: unescape(escape(s)) = s for every string s over backslash, both     *)
(* separators and ordinary characters.                                     *)
(***************************************************************************)
EscapeRoundTrip == Returned("escape") => unescape(ret) = args[1]

\* a text holding the escape character and both separators went through escape
EscapeRoundTripWitness ==
    /\ Returned("escape")
    /\ args[1] = <<BS, tokenSeparator, keySeparator>>
    /\ ret = <<BS, BS, BS, tokenSeparator, BS, keySeparator>>
    /\ unescape(ret) = args[1]

(***************************************************************************)
(* C2: breakKey(buildKey(C)) = C for every sequence of strings C, the      *)
(* empty sequence and components holding backslashes or separators         *)
(* included.                                                               *)
(***************************************************************************)
KeyRoundTrip == Returned("buildKey") => breakKey(ret) = args[1]

(***************************************************************************)
(* C3: parseSearchKey(buildSearchKey(prefix, field, value, filter,         *)
(* filterKey)) gives back the five strings, with an empty trailing.        *)
(***************************************************************************)
SearchKeyRoundTrip ==
    (Returned("buildSearchKey") /\ Len(args) = 5) =>
        parseSearchKey(ret).ret =
            [prefix |-> args[1], field |-> args[2], value |-> args[3],
             filter |-> args[4], filterKey |-> args[5], trailing |-> <<>>]

(***************************************************************************)
(* C4: buildSearchKey(prefix, field, value, filter, filterKey) is          *)
(* buildKey([prefix, field, value, filter or "", filterKey or ""]): every  *)
(* component escaped, five slots delimited by unescaped key separators.    *)
(***************************************************************************)
SearchKeyIsBuildKey ==
    Returned("buildSearchKey") =>
        /\ ret = buildKey(<<args[1].v, args[2].v, args[3].v,
                            GivenOrEmpty(args, 4), GivenOrEmpty(args, 5)>>)
        /\ Len(UnescapedFragments(ret, keySeparator)) = 5

(***************************************************************************)
(* C5: splitOnUnescapedSeparator(text, sep) cuts text at exactly the       *)
(* occurrences of sep preceded by an even-length run of backslashes, and   *)
(* removes nothing else.  tokenize(text, true) returns the split on the    *)
(* token separator, breakKey the unescaped split on the key separator.     *)
(***************************************************************************)
SplitsOnUnescapedOnly ==
    /\ (Returned("tokenize") /\ args[2] = TRUE) =>
           ret = UnescapedFragments(args[1], tokenSeparator)
    /\ Returned("breakKey") =>
           LET pieces == UnescapedFragments(args[1], keySeparator)
           IN  ret = [i \in 1..Len(pieces) |-> unescape(pieces[i])]

(***************************************************************************)
(* C6: in escape(s) every separator is preceded by a maximal run of        *)
(* backslashes of odd length, and every maximal run of backslashes not     *)
(* followed by a separator has even length.                                *)
(***************************************************************************)
EscapeSeparatorSafety ==
    Returned("escape") =>
        /\ \A i \in 1..Len(ret) :
               ret[i] \in SeparatorChars => BackslashRunBefore(ret, i) % 2 = 1
        /\ \A i \in 2..(Len(ret) + 1) :
               (/\ ret[i - 1] = BS
                /\ (i = Len(ret) + 1 \/ ret[i] \notin SeparatorChars \cup {BS}))
               => BackslashRunBefore(ret, i) % 2 = 0

\* escape returned a text with an escaped separator and a free backslash run
EscapeSeparatorSafetyWitness ==
    /\ Returned("escape")
    /\ args[1] = <<keySeparator, BS, "a">>
    /\ ret = <<BS, keySeparator, BS, BS, "a">>

(***************************************************************************)
(* C7: keyHasPrefix(key, prefix) is true iff key begins with prefix        *)
(* followed by one key separator that is unescaped in key.                 *)
(***************************************************************************)
KeyHasPrefixIffUnescaped ==
    Returned("keyHasPrefix") =>
        (ret <=> LET key == args[1]
                     n == Len(args[2])
                 IN  /\ Len(key) >= n + 1
                     /\ SubSeq(key, 1, n) = args[2]
                     /\ n + 1 \in UnescapedAt(key, keySeparator))

(***************************************************************************)
(* C8: tokenize(encode(text, sep), true) = tokenize(escape(text), false,   *)
(* sep) for every text and separator, the default one included.            *)
(***************************************************************************)
EncodeKeepsTokens ==
    Returned("encode") =>
        tokenize(ret, TRUE, args[2]) = tokenize(escape(args[1]), FALSE, args[2])

(***************************************************************************)
(* C9: tokenize(text, false, sep) with sep null, false or the empty string *)
(* returns the one-element sequence [text].                                *)
(***************************************************************************)
NoSeparatorOneToken ==
    (/\ Returned("tokenize")
     /\ args[2] = FALSE
     /\ args[3] \in {Null, False, Str(<<>>)})
    => ret = <<args[1]>>

(***************************************************************************)
(* C10: no call of an exported operation creates or changes a variable     *)
(* shared between calls.                                                   *)
(***************************************************************************)
NoSharedVariableWritten == parts = NoParts

====
